---- MODULE Spec2Model ----
(***************************************************************************)
(* State-machine model of the MarketingMediaPlanner graph                   *)
(* (src/src/marketing_planner/graph.py, state.py).                          *)
(*                                                                          *)
(* One action per graph node.  Each action is the whole super-step: the     *)
(* node body, the merge of its update into the state through the field     *)
(* reducers of state.py, and the conditional edge evaluated afterwards.    *)
(*                                                                          *)
(* Representation                                                           *)
(*   Optional[X]   a sequence of length 0 (None) or 1 (<<x>>)               *)
(*   dict          a function from a finite set of keys                     *)
(*   str           a sequence of one-character strings                      *)
(*   message       a record with the fields of AIMessage / HumanMessage /   *)
(*                 ToolMessage that the graph reads                         *)
(***************************************************************************)
EXTENDS Integers, Sequences, FiniteSets, TLC

VARIABLES node, website_url, messages, marketing_plan, loop_step,
          awaiting_user_input, plan_revision_count, user_preferences,
          last_question_context, research_progress, tools, response, verdict,
          max_loops, info, http, scrape_result

vars == <<node, website_url, messages, marketing_plan, loop_step,
          awaiting_user_input, plan_revision_count, user_preferences,
          last_question_context, research_progress, tools, response, verdict,
          max_loops, info, http, scrape_result>>

----------------------------------------------------------------------------
(* Bounds of the exploration *)

\* most tool calls in a message handed to route_after_agent on its own
MaxCalls == 3

\* largest stored loop_step handed to route_after_checker on its own
MaxStep == 7

\* size of the message history explored in one behaviour: its messages plus
\* the tool calls they carry
MaxSize == 6

----------------------------------------------------------------------------
(* Optional values and dicts *)

None == << >>
Some(x) == <<x>>
IsNone(o) == Len(o) = 0
Get(o) == o[1]

EmptyDict == << >>
\* d.get(k, default)
DictGet(d, k, default) == IF k \in DOMAIN d THEN d[k] ELSE default
\* an assignment that starts from an empty dict instead of a copy
DictSet_DropsOthers(d, k, v) == [x \in {k} |-> v]
\* a copy-and-set that starts from a fresh all-false dict of the same keys
DictSet_ResetsOthers(d, k, v) ==
    [x \in (DOMAIN d) \cup {k} |-> IF x = k THEN v ELSE FALSE]
\* d[k] = v on a copy of d
DictSet(d, k, v) == [x \in (DOMAIN d) \cup {k} |-> IF x = k THEN v ELSE d[x]]
\* a test for None only: an empty dict counts as a value
Truthy_IsNotNone(o) == ~IsNone(o)

\* Python truthiness of an Optional[dict]: None and {} are both falsy
Truthy(o) == (~IsNone(o)) /\ (DOMAIN Get(o) # {})

----------------------------------------------------------------------------
(* Strings *)

Str_Unsatisfactory ==
    <<"U","n","s","a","t","i","s","f","a","c","t","o","r","y"," ",
      "r","e","s","p","o","n","s","e",":","\n">>
Str_None == <<"N","o","n","e">>
Str_Nudge == <<"P","l","e","a","s","e">>

RECURSIVE Join_NoSeparator(_, _)
\* "".join(items)
Join_NoSeparator(items, sep) ==
    IF Len(items) = 0 THEN << >>
    ELSE items[1] \o Join_NoSeparator(Tail(items), sep)

RECURSIVE Join(_, _)
\* sep.join(items)
Join(items, sep) ==
    IF Len(items) = 0 THEN << >>
    ELSE IF Len(items) = 1 THEN items[1]
    ELSE items[1] \o sep \o Join(Tail(items), sep)

\* f"{x}" of an Optional[str]
Format(o) == IF IsNone(o) THEN Str_None ELSE Get(o)

\* the keywords process_user_input looks for and the preference keys it
\* writes
Str_budget == <<"b", "u", "d", "g", "e", "t">>
Str_timeline == <<"t", "i", "m", "e", "l", "i", "n", "e">>
Str_launch == <<"l", "a", "u", "n", "c", "h">>
Str_channel == <<"c", "h", "a", "n", "n", "e", "l">>
Str_platform == <<"p", "l", "a", "t", "f", "o", "r", "m">>
Str_goal == <<"g", "o", "a", "l">>
Str_objective == <<"o", "b", "j", "e", "c", "t", "i", "v", "e">>
Str_industry == <<"i", "n", "d", "u", "s", "t", "r", "y">>
Str_business == <<"b", "u", "s", "i", "n", "e", "s", "s">>
Str_preferred_channels ==
    <<"p", "r", "e", "f", "e", "r", "r", "e", "d",
      "_", "c", "h", "a", "n", "n", "e", "l", "s">>
Str_marketing_goals ==
    <<"m", "a", "r", "k", "e", "t", "i",
      "n", "g", "_", "g", "o", "a", "l", "s">>
Str_user_input == <<"u", "s", "e", "r", "_", "i", "n", "p", "u", "t">>

\* str.lower() on one character (ASCII letters)
LowerChar(c) ==
    CASE c = "A" -> "a" [] c = "B" -> "b" [] c = "C" -> "c"
      [] c = "D" -> "d" [] c = "E" -> "e" [] c = "F" -> "f"
      [] c = "G" -> "g" [] c = "H" -> "h" [] c = "I" -> "i"
      [] c = "J" -> "j" [] c = "K" -> "k" [] c = "L" -> "l"
      [] c = "M" -> "m" [] c = "N" -> "n" [] c = "O" -> "o"
      [] c = "P" -> "p" [] c = "Q" -> "q" [] c = "R" -> "r"
      [] c = "S" -> "s" [] c = "T" -> "t" [] c = "U" -> "u"
      [] c = "V" -> "v" [] c = "W" -> "w" [] c = "X" -> "x"
      [] c = "Y" -> "y" [] c = "Z" -> "z"
      [] OTHER -> c

\* s.lower()
Lower(s) == [i \in DOMAIN s |-> LowerChar(s[i])]
\* s.replace(old, new) for a one-character old
Replace(s, old, new) ==
    [i \in DOMAIN s |-> IF s[i] = old THEN new ELSE s[i]]
\* sub in s
StrIn(sub, s) ==
    \E i \in 0..(Len(s) - Len(sub)) : SubSeq(s, i + 1, i + Len(sub)) = sub

----------------------------------------------------------------------------
(* Messages *)

NoId == <<0, 0>>

AIMessage(calls) ==
    [type |-> "ai", tool_calls |-> calls, content |-> << >>,
     tool_call_id |-> NoId, name |-> "", status |-> ""]
HumanMessage(text) ==
    [type |-> "human", tool_calls |-> << >>, content |-> text,
     tool_call_id |-> NoId, name |-> "", status |-> ""]
ToolMessage(id, text, nm, st) ==
    [type |-> "tool", tool_calls |-> << >>, content |-> text,
     tool_call_id |-> id, name |-> nm, status |-> st]

\* a reducer that keeps only the latest update, as the fields without a
\* reducer do
add_messages_LastWriteWins(left, right) == right

\* add_messages reducer: the update is appended to the stored sequence
add_messages(left, right) == left \o right
\* operator.add reducer of the two counters
operator_add(left, right) == left + right

----------------------------------------------------------------------------
(* Values the environment (model, checker, user, caller) can supply *)

MemoryTools == {"ManageMemory", "SearchMemory"}
ResearchTools == {"Search", "ScrapeWebsite", "AnalyzeWebsite"}
BaseTools == ResearchTools \cup {"MarketingPlan", "AskUserInput"}

P1 == [k \in {"recommended_channels"} |-> "search"]
P2 == [k \in {"recommended_channels"} |-> "social"]
Plans == {EmptyDict, P1}

Q_Budget == <<"B","u","d","g","e","t","?">>
Q_Colors == <<"c","o","l","o","r","?">>
Ctx_Brand == <<"B","r","a","n","d"," ","c","o","l","o","r","s">>
AskArgs == {[k \in {"question"} |-> Q_Budget],
            [k \in {"question", "context"} |->
                 IF k = "question" THEN Q_Colors ELSE Ctx_Brand]}

\* name and arguments of the tool calls a model response may carry
CallKinds ==
    {[name |-> "MarketingPlan", args |-> a] : a \in Plans}
    \cup {[name |-> "AskUserInput", args |-> a] : a \in AskArgs}
    \cup {[name |-> n, args |-> EmptyDict] : n \in {"Search"} \cup MemoryTools}

SeqsUpTo(S, n) == UNION {[1..k -> S] : k \in 0..n}

\* the raw responses of the model, of at most n tool calls, for the message
\* at position pos
RawResponses(pos, n) ==
    {[i \in DOMAIN ks |->
        [name |-> ks[i].name, args |-> ks[i].args, id |-> <<pos, i>>]] :
     ks \in SeqsUpTo(CallKinds, n)}

\* structured verdicts of the checker (MarketingPlanIsSatisfactory)
Verdicts ==
    {[is_satisfactory |-> TRUE,
      reason |-> << <<"a">>, <<"b">>, <<"c">> >>,
      improvement_instructions |-> None],
     [is_satisfactory |-> FALSE,
      reason |-> << <<"a">>, <<"b">>, <<"c">> >>,
      improvement_instructions |-> Some(<<"A","d","d">>)],
     [is_satisfactory |-> FALSE,
      reason |-> << <<"a", "b">> >>,
      improvement_instructions |-> None]}
Replies == {<<"5","k">>}
Urls == {Some(<<"u">>)}

\* values of the max_loops setting of the run configuration
MaxLoopsChoices == {2, 6}

----------------------------------------------------------------------------
(* call_agent_model *)

MemCallsIn(calls) ==
    Cardinality({i \in DOMAIN calls : calls[i].name \in MemoryTools})

RECURSIVE MemoryScan(_, _, _)
\* the loop "for idx in range(min(5, len(state.messages)))"
MemoryScan(msgs, idx, acc) ==
    IF idx >= (IF Len(msgs) < 5 THEN Len(msgs) ELSE 5) THEN acc
    ELSE IF idx >= Len(msgs) THEN acc
    ELSE MemoryScan(msgs, idx + 1,
                    acc + MemCallsIn(msgs[Len(msgs) - idx].tool_calls))

MemoryToolCalls(msgs) == MemoryScan(msgs, 0, 0)

\* "more than 3" memory calls, as the comment above the loop words it
BoundTools_MoreThanThree(msgs) ==
    IF MemoryToolCalls(msgs) <= 3 THEN BaseTools \cup MemoryTools ELSE BaseTools

\* tools bound to the model for this turn
BoundTools(msgs) ==
    IF MemoryToolCalls(msgs) < 3 THEN BaseTools \cup MemoryTools ELSE BaseTools

RECURSIVE FirstNamed(_, _, _)
\* next(tc for tc in calls if tc["name"] == nm), as an index
FirstNamed(calls, nm, i) ==
    IF i > Len(calls) THEN 0
    ELSE IF calls[i].name = nm THEN i
    ELSE FirstNamed(calls, nm, i + 1)

\* a loop that looks for a MarketingPlan call first and only then for a
\* question
FirstBreak_PlanFirst(calls, i) ==
    IF FirstNamed(calls, "MarketingPlan", i) # 0
    THEN FirstNamed(calls, "MarketingPlan", i)
    ELSE FirstNamed(calls, "AskUserInput", i)

RECURSIVE FirstBreak(_, _)
\* index at which the loop over response.tool_calls breaks, 0 if it runs out
FirstBreak(calls, i) ==
    IF i > Len(calls) THEN 0
    ELSE IF calls[i].name = "MarketingPlan" THEN i
    ELSE IF calls[i].name = "AskUserInput" THEN i
    ELSE FirstBreak(calls, i + 1)

\* an update that carries the stored plan along when nothing is submitted
AgentUpdate_KeepsPlan(resp) ==
    LET b == FirstBreak(resp, 1)
        plan == IF b # 0 /\ resp[b].name = "MarketingPlan"
                THEN Some(resp[b].args) ELSE None
        asking_user == b # 0 /\ resp[b].name = "AskUserInput"
        user_question == IF asking_user THEN resp[b].args ELSE EmptyDict
        kept == IF ~IsNone(plan)
                THEN <<resp[FirstNamed(resp, "MarketingPlan", 1)]>>
                ELSE IF asking_user
                THEN <<resp[FirstNamed(resp, "AskUserInput", 1)]>>
                ELSE resp
        response_messages ==
            IF Len(kept) = 0
            THEN <<AIMessage(kept), HumanMessage(Str_Nudge)>>
            ELSE <<AIMessage(kept)>>
    IN  [messages |-> response_messages,
         marketing_plan |-> IF IsNone(plan) THEN marketing_plan ELSE plan,
         awaiting_user_input |-> asking_user,
         last_question_context |->
             IF asking_user /\ "context" \in DOMAIN user_question
             THEN Some(user_question["context"]) ELSE None,
         loop_step |-> loop_step + 1]

\* an update that raises the flag for a question anywhere in the response
AgentUpdate_AwaitsAnyQuestion(resp) ==
    LET b == FirstBreak(resp, 1)
        plan == IF b # 0 /\ resp[b].name = "MarketingPlan"
                THEN Some(resp[b].args) ELSE None
        asking_user == b # 0 /\ resp[b].name = "AskUserInput"
        user_question == IF asking_user THEN resp[b].args ELSE EmptyDict
        kept == IF ~IsNone(plan)
                THEN <<resp[FirstNamed(resp, "MarketingPlan", 1)]>>
                ELSE IF asking_user
                THEN <<resp[FirstNamed(resp, "AskUserInput", 1)]>>
                ELSE resp
        response_messages ==
            IF Len(kept) = 0
            THEN <<AIMessage(kept), HumanMessage(Str_Nudge)>>
            ELSE <<AIMessage(kept)>>
    IN  [messages |-> response_messages,
         marketing_plan |-> plan,
         awaiting_user_input |-> FirstNamed(resp, "AskUserInput", 1) # 0,
         last_question_context |->
             IF asking_user /\ "context" \in DOMAIN user_question
             THEN Some(user_question["context"]) ELSE None,
         loop_step |-> loop_step + 1]

\* an update that stores a decision without tool calls as it is, with no
\* corrective message behind it
AgentUpdate_NoCorrectiveMessage(resp) ==
    LET b == FirstBreak(resp, 1)
        plan == IF b # 0 /\ resp[b].name = "MarketingPlan"
                THEN Some(resp[b].args) ELSE None
        asking_user == b # 0 /\ resp[b].name = "AskUserInput"
        user_question == IF asking_user THEN resp[b].args ELSE EmptyDict
        kept == IF ~IsNone(plan)
                THEN <<resp[FirstNamed(resp, "MarketingPlan", 1)]>>
                ELSE IF asking_user
                THEN <<resp[FirstNamed(resp, "AskUserInput", 1)]>>
                ELSE resp
    IN  [messages |-> <<AIMessage(kept)>>,
         marketing_plan |-> plan,
         awaiting_user_input |-> asking_user,
         last_question_context |->
             IF asking_user /\ "context" \in DOMAIN user_question
             THEN Some(user_question["context"]) ELSE None,
         loop_step |-> loop_step + 1]

\* an update that stores the response's tool calls as the model gave them
AgentUpdate_KeepsAllCalls(resp) ==
    LET b == FirstBreak(resp, 1)
        plan == IF b # 0 /\ resp[b].name = "MarketingPlan"
                THEN Some(resp[b].args) ELSE None
        asking_user == b # 0 /\ resp[b].name = "AskUserInput"
        user_question == IF asking_user THEN resp[b].args ELSE EmptyDict
        response_messages ==
            IF Len(resp) = 0
            THEN <<AIMessage(resp), HumanMessage(Str_Nudge)>>
            ELSE <<AIMessage(resp)>>
    IN  [messages |-> response_messages,
         marketing_plan |-> plan,
         awaiting_user_input |-> asking_user,
         last_question_context |->
             IF asking_user /\ "context" \in DOMAIN user_question
             THEN Some(user_question["context"]) ELSE None,
         loop_step |-> loop_step + 1]

\* the update returned by call_agent_model for raw response resp
AgentUpdate(resp) ==
    LET b == FirstBreak(resp, 1)
        plan == IF b # 0 /\ resp[b].name = "MarketingPlan"
                THEN Some(resp[b].args) ELSE None
        asking_user == b # 0 /\ resp[b].name = "AskUserInput"
        user_question == IF asking_user THEN resp[b].args ELSE EmptyDict
        kept == IF ~IsNone(plan)
                THEN <<resp[FirstNamed(resp, "MarketingPlan", 1)]>>
                ELSE IF asking_user
                THEN <<resp[FirstNamed(resp, "AskUserInput", 1)]>>
                ELSE resp
        response_messages ==
            IF Len(kept) = 0
            THEN <<AIMessage(kept), HumanMessage(Str_Nudge)>>
            ELSE <<AIMessage(kept)>>
    IN  [messages |-> response_messages,
         marketing_plan |-> plan,
         awaiting_user_input |-> asking_user,
         last_question_context |->
             IF asking_user /\ "context" \in DOMAIN user_question
             THEN Some(user_question["context"]) ELSE None,
         loop_step |-> loop_step + 1]

\* an edge that sends every message that is not a decision back to the agent
route_after_agent_IgnoresAwaiting(msgs, awaiting) ==
    LET last_message == msgs[Len(msgs)]
    IN  IF last_message.type # "ai"
        THEN "call_agent_model"
        ELSE IF Len(last_message.tool_calls) > 0
        THEN LET tool_name == last_message.tool_calls[1].name
             IN  IF MemoryToolCalls(msgs) >= 3 /\ tool_name \in MemoryTools
                 THEN "call_agent_model"
                 ELSE IF tool_name = "MarketingPlan" THEN "reflect"
                 ELSE IF tool_name = "AskUserInput" THEN "__end__"
                 ELSE "tools"
        ELSE "tools"

\* an edge that hands every decision with tool calls to the checker
route_after_agent_ReflectsOnAnyCall(msgs, awaiting) ==
    LET last_message == msgs[Len(msgs)]
    IN  IF last_message.type # "ai"
        THEN IF awaiting THEN "process_user_input" ELSE "call_agent_model"
        ELSE IF Len(last_message.tool_calls) > 0
        THEN LET tool_name == last_message.tool_calls[1].name
             IN  IF MemoryToolCalls(msgs) >= 3 /\ tool_name \in MemoryTools
                 THEN "call_agent_model"
                 ELSE IF tool_name = "AskUserInput" THEN "__end__"
                 ELSE "reflect"
        ELSE "tools"

\* conditional edge after call_agent_model
route_after_agent(msgs, awaiting) ==
    LET last_message == msgs[Len(msgs)]
    IN  IF last_message.type # "ai"
        THEN IF awaiting THEN "process_user_input" ELSE "call_agent_model"
        ELSE IF Len(last_message.tool_calls) > 0
        THEN LET tool_name == last_message.tool_calls[1].name
             IN  IF MemoryToolCalls(msgs) >= 3 /\ tool_name \in MemoryTools
                 THEN "call_agent_model"
                 ELSE IF tool_name = "MarketingPlan" THEN "reflect"
                 ELSE IF tool_name = "AskUserInput" THEN "__end__"
                 ELSE "tools"
        ELSE "tools"

NumDecisions(msgs) == Cardinality({i \in DOMAIN msgs : msgs[i].type = "ai"})

RECURSIVE Size(_)
\* messages plus tool calls of a history
Size(msgs) ==
    IF Len(msgs) = 0 THEN 0
    ELSE 1 + Len(msgs[1].tool_calls) + Size(Tail(msgs))

\* tool calls a further decision may carry within the explored size
Room(msgs) == IF Size(msgs) < MaxSize THEN MaxSize - Size(msgs) - 1 ELSE 0

\* one execution of the node on the model's raw response resp: the update,
\* its merge through the reducers, and the conditional edge
AgentStep(resp) ==
    LET u == AgentUpdate(resp)
    IN  /\ Size(add_messages(messages, u.messages)) <= MaxSize
        /\ tools' = BoundTools(messages)
        /\ messages' = add_messages(messages, u.messages)
        /\ marketing_plan' = u.marketing_plan
        /\ awaiting_user_input' = u.awaiting_user_input
        /\ last_question_context' = u.last_question_context
        /\ loop_step' = operator_add(loop_step, u.loop_step)
        /\ node' = route_after_agent(messages', awaiting_user_input')
        /\ verdict' = None
        /\ UNCHANGED <<website_url, plan_revision_count, user_preferences,
                       research_progress, max_loops, info, http,
                       scrape_result>>

call_agent_model ==
    /\ node = "call_agent_model"
    /\ \E resp \in RawResponses(Len(messages) + 1, Room(messages)) :
         AgentStep(resp)
    /\ UNCHANGED response

----------------------------------------------------------------------------
(* reflect *)

\* an update that withdraws the plan the checker rejected
ReflectUpdate_ClearsRejected(is_satisfactory, reason, improvement_instructions) ==
    LET last_message == messages[Len(messages)]
        presumed_plan == marketing_plan
        marketing_plan_tool_call ==
            last_message.tool_calls[
                FirstNamed(last_message.tool_calls, "MarketingPlan", 1)]
        revision == plan_revision_count + 1
    IN  IF is_satisfactory /\ Truthy(presumed_plan)
        THEN [marketing_plan |-> presumed_plan,
              plan_revision_count |-> revision,
              messages |-> <<ToolMessage(marketing_plan_tool_call.id,
                                         Join(reason, <<"\n">>),
                                         "MarketingPlan", "success")>>]
        ELSE [messages |-> <<ToolMessage(marketing_plan_tool_call.id,
                                         Str_Unsatisfactory
                                           \o Format(improvement_instructions),
                                         "MarketingPlan", "error")>>,
              marketing_plan |-> None,
              plan_revision_count |-> revision]

\* the update returned by reflect for the checker's structured verdict
ReflectUpdate(is_satisfactory, reason, improvement_instructions) ==
    LET last_message == messages[Len(messages)]
        presumed_plan == marketing_plan
        marketing_plan_tool_call ==
            last_message.tool_calls[
                FirstNamed(last_message.tool_calls, "MarketingPlan", 1)]
        revision == plan_revision_count + 1
    IN  IF is_satisfactory /\ Truthy(presumed_plan)
        THEN [marketing_plan |-> presumed_plan,
              plan_revision_count |-> revision,
              messages |-> <<ToolMessage(marketing_plan_tool_call.id,
                                         Join(reason, <<"\n">>),
                                         "MarketingPlan", "success")>>]
        ELSE [messages |-> <<ToolMessage(marketing_plan_tool_call.id,
                                         Str_Unsatisfactory
                                           \o Format(improvement_instructions),
                                         "MarketingPlan", "error")>>,
              plan_revision_count |-> revision]

\* an edge that looks at the plan before it looks at the loop budget
route_after_checker_PlanBeforeBudget(msgs, plan, step) ==
    LET last_message == msgs[Len(msgs)]
    IN  IF ~Truthy(plan) THEN "call_agent_model"
        ELSE IF step < max_loops
        THEN IF last_message.type # "tool" THEN "error"
             ELSE IF last_message.status = "error" THEN "call_agent_model"
             ELSE "__end__"
        ELSE "__end__"

\* an edge that gives up when the checker turned down an empty submission
route_after_checker_EndsWithoutPlan(msgs, plan, step) ==
    LET last_message == msgs[Len(msgs)]
    IN  IF step < max_loops
        THEN IF ~Truthy(plan) THEN "__end__"
             ELSE IF last_message.type # "tool" THEN "error"
             ELSE IF last_message.status = "error" THEN "call_agent_model"
             ELSE "__end__"
        ELSE "__end__"

\* an edge that ends the run on any tool-result, whatever its status
route_after_checker_IgnoresStatus(msgs, plan, step) ==
    LET last_message == msgs[Len(msgs)]
    IN  IF step < max_loops
        THEN IF ~Truthy(plan) THEN "call_agent_model"
             ELSE IF last_message.type # "tool" THEN "error"
             ELSE "__end__"
        ELSE "__end__"

\* conditional edge after reflect
route_after_checker(msgs, plan, step) ==
    LET last_message == msgs[Len(msgs)]
    IN  IF step < max_loops
        THEN IF ~Truthy(plan) THEN "call_agent_model"
             ELSE IF last_message.type # "tool" THEN "error"
             ELSE IF last_message.status = "error" THEN "call_agent_model"
             ELSE "__end__"
        ELSE "__end__"

\* the two ValueErrors of reflect and the StopIteration of its next(...)
ReflectRaises ==
    LET last_message == messages[Len(messages)]
    IN  \/ Len(messages) = 0
        \/ last_message.type # "ai"
        \/ Len(last_message.tool_calls) = 0
        \/ FirstNamed(last_message.tool_calls, "MarketingPlan", 1) = 0

reflect ==
    /\ node = "reflect"
    /\ Size(messages) < MaxSize
    /\ IF ReflectRaises
       THEN /\ node' = "error"
            /\ UNCHANGED <<messages, marketing_plan, plan_revision_count,
                           verdict>>
       ELSE \E v \in Verdicts :
              LET u == ReflectUpdate(v.is_satisfactory, v.reason,
                                     v.improvement_instructions)
              IN  /\ verdict' = Some(v)
                  /\ messages' = add_messages(messages, u.messages)
                  /\ marketing_plan' =
                        IF "marketing_plan" \in DOMAIN u
                        THEN u.marketing_plan ELSE marketing_plan
                  /\ plan_revision_count' =
                        operator_add(plan_revision_count,
                                     u.plan_revision_count)
                  /\ node' = route_after_checker(messages', marketing_plan',
                                                 loop_step)
    /\ UNCHANGED <<website_url, loop_step, awaiting_user_input,
                   user_preferences, last_question_context,
                   research_progress, tools, response, max_loops, info,
                   http, scrape_result>>

----------------------------------------------------------------------------
(* tools: the prebuilt ToolNode, then the edge back to call_agent_model *)

\* one tool-result message per tool call of the latest decision; what a tool
\* returned is read by no node and no edge, so the results carry no content
ToolResults(calls) ==
    [i \in DOMAIN calls |->
        ToolMessage(calls[i].id, << >>, calls[i].name, "success")]

\* a tools node whose update also resets the site under analysis
ToolNode_ClearsUrl ==
    /\ node = "tools"
    /\ Size(messages) + Len(messages[Len(messages)].tool_calls) <= MaxSize
    /\ LET last_message == messages[Len(messages)]
       IN  IF last_message.type # "ai"
           THEN /\ node' = "error"
                /\ UNCHANGED messages
           ELSE /\ messages' = add_messages(messages,
                          ToolResults(last_message.tool_calls))
                /\ node' = "call_agent_model"
    /\ verdict' = None
    /\ website_url' = None
    /\ UNCHANGED <<marketing_plan, loop_step,
                   awaiting_user_input, plan_revision_count,
                   user_preferences, last_question_context,
                   research_progress, tools, response, max_loops, info,
                   http, scrape_result>>

ToolNode ==
    /\ node = "tools"
    /\ Size(messages) + Len(messages[Len(messages)].tool_calls) <= MaxSize
    /\ LET last_message == messages[Len(messages)]
       IN  IF last_message.type # "ai"
           THEN /\ node' = "error"
                /\ UNCHANGED messages
           ELSE /\ messages' = add_messages(messages,
                          ToolResults(last_message.tool_calls))
                /\ node' = "call_agent_model"
    /\ verdict' = None
    /\ UNCHANGED <<website_url, marketing_plan, loop_step,
                   awaiting_user_input, plan_revision_count,
                   user_preferences, last_question_context,
                   research_progress, tools, response, max_loops, info,
                   http, scrape_result>>

----------------------------------------------------------------------------
(* the caller resumes a paused run with the user's reply *)

Paused ==
    /\ node = "__end__"
    /\ Len(messages) > 0
    /\ messages[Len(messages)].type = "ai"
    /\ Len(messages[Len(messages)].tool_calls) > 0
    /\ messages[Len(messages)].tool_calls[1].name = "AskUserInput"

Resume ==
    /\ Paused
    /\ Size(messages) < MaxSize
    /\ \E reply \in Replies :
         messages' = add_messages(messages, <<HumanMessage(reply)>>)
    /\ node' = "call_agent_model"
    /\ verdict' = None
    /\ UNCHANGED <<website_url, marketing_plan, loop_step,
                   awaiting_user_input, plan_revision_count,
                   user_preferences, last_question_context,
                   research_progress, tools, response, max_loops, info,
                   http, scrape_result>>

----------------------------------------------------------------------------
(* scrape_website (tools.py) *)

\* content[:40_000]
Truncate(content) ==
    SubSeq(content, 1, IF Len(content) < 40000 THEN Len(content) ELSE 40000)

\* _INFO_PROMPT.format(info=..., url=..., content=...): the three values the
\* template is filled with
InfoPrompt(plan, url, content) ==
    [info |-> plan, url |-> url, content |-> content]

\* what the model may answer to the prompt
ModelNotes == {<<"n", "o", "t", "e", "s">>}

\* session.get(url) either raises (connection refused, timeout) or yields a
\* response, whose status the function never reads; response.text() is the
\* body whatever the status
scrape_website ==
    /\ node = "scrape_website"
    /\ IF Get(http).kind = "error"
       THEN scrape_result' =
               Some([kind |-> "raised", prompts |-> << >>, value |-> << >>])
       ELSE LET content == Get(http).body
                p == InfoPrompt(marketing_plan, Get(http).url,
                                Truncate(content))
            IN  \E notes \in ModelNotes :
                  scrape_result' =
                      Some([kind |-> "returned", prompts |-> <<p>>,
                            value |-> notes])
    /\ node' = "tools"
    /\ UNCHANGED <<website_url, messages, marketing_plan, loop_step,
                   awaiting_user_input, plan_revision_count,
                   user_preferences, last_question_context,
                   research_progress, tools, response, verdict, max_loops,
                   info, http>>

----------------------------------------------------------------------------
(* process_user_input *)

\* a chain that tests the timeline keywords before the budget keyword
QuestionBranch_TimelineFirst(question) ==
    IF StrIn(Str_timeline, Lower(question))
       \/ StrIn(Str_launch, Lower(question)) THEN "timeline"
    ELSE IF StrIn(Str_budget, Lower(question)) THEN "budget"
    ELSE IF StrIn(Str_channel, Lower(question))
            \/ StrIn(Str_platform, Lower(question)) THEN "channel"
    ELSE IF StrIn(Str_goal, Lower(question))
            \/ StrIn(Str_objective, Lower(question)) THEN "goal"
    ELSE IF StrIn(Str_industry, Lower(question))
            \/ StrIn(Str_business, Lower(question)) THEN "industry"
    ELSE "generic"

\* a chain without the industry / business test
QuestionBranch_NoIndustryBranch(question) ==
    IF StrIn(Str_budget, Lower(question)) THEN "budget"
    ELSE IF StrIn(Str_timeline, Lower(question))
            \/ StrIn(Str_launch, Lower(question)) THEN "timeline"
    ELSE IF StrIn(Str_channel, Lower(question))
            \/ StrIn(Str_platform, Lower(question)) THEN "channel"
    ELSE IF StrIn(Str_goal, Lower(question))
            \/ StrIn(Str_objective, Lower(question)) THEN "goal"
    ELSE "generic"

\* the branch of the if / elif chain taken for a question
QuestionBranch(question) ==
    IF StrIn(Str_budget, Lower(question)) THEN "budget"
    ELSE IF StrIn(Str_timeline, Lower(question))
            \/ StrIn(Str_launch, Lower(question)) THEN "timeline"
    ELSE IF StrIn(Str_channel, Lower(question))
            \/ StrIn(Str_platform, Lower(question)) THEN "channel"
    ELSE IF StrIn(Str_goal, Lower(question))
            \/ StrIn(Str_objective, Lower(question)) THEN "goal"
    ELSE IF StrIn(Str_industry, Lower(question))
            \/ StrIn(Str_business, Lower(question)) THEN "industry"
    ELSE "generic"

\* a key that keeps the capitals of the context
PreferenceKey_KeepsCase(context) ==
    IF Len(context) > 0 THEN Replace(context, " ", "_") ELSE Str_user_input

\* key = context.lower().replace(" ", "_") if context else "user_input"
PreferenceKey(context) ==
    IF Len(context) > 0 THEN Replace(Lower(context), " ", "_")
    ELSE Str_user_input

\* second_last_message.tool_calls on a message that is not an AIMessage: only
\* AIMessage has the attribute
UserInputRaises ==
    /\ awaiting_user_input
    /\ Len(messages) >= 2
    /\ messages[Len(messages) - 1].type # "ai"

\* the update returned by process_user_input
UserInputUpdate ==
    LET second_last_message ==
            IF Len(messages) >= 2 THEN Some(messages[Len(messages) - 1])
            ELSE None
    IN  IF \/ ~awaiting_user_input
           \/ IsNone(second_last_message)
           \/ Len(Get(second_last_message).tool_calls) = 0
        THEN [awaiting_user_input |-> FALSE]
        ELSE
        LET calls == Get(second_last_message).tool_calls
            at == FirstNamed(calls, "AskUserInput", 1)
        IN  IF at = 0 THEN [awaiting_user_input |-> FALSE]
            ELSE
            LET tool_call == calls[at]
                last_message == messages[Len(messages)]
                user_response ==
                    IF last_message.type = "human" THEN last_message.content
                    ELSE << >>
                question == DictGet(tool_call.args, "question", << >>)
                context == DictGet(tool_call.args, "context", << >>)
                branch == QuestionBranch(question)
            IN  CASE branch = "budget" ->
                       [user_preferences |->
                            DictSet(user_preferences, Str_budget,
                                    user_response),
                        research_progress |->
                            DictSet(research_progress, "budget_confirmed",
                                    TRUE),
                        awaiting_user_input |-> FALSE]
                  [] branch = "timeline" ->
                       [user_preferences |->
                            DictSet(user_preferences, Str_timeline,
                                    user_response),
                        research_progress |->
                            DictSet(research_progress, "timeline_confirmed",
                                    TRUE),
                        awaiting_user_input |-> FALSE]
                  [] branch = "channel" ->
                       [user_preferences |->
                            DictSet(user_preferences, Str_preferred_channels,
                                    user_response),
                        awaiting_user_input |-> FALSE]
                  [] branch = "goal" ->
                       [user_preferences |->
                            DictSet(user_preferences, Str_marketing_goals,
                                    user_response),
                        awaiting_user_input |-> FALSE]
                  [] branch = "industry" ->
                       [research_progress |->
                            DictSet(research_progress, "website_analyzed",
                                    TRUE),
                        awaiting_user_input |-> FALSE]
                  [] OTHER ->
                       [user_preferences |->
                            DictSet(user_preferences, PreferenceKey(context),
                                    user_response),
                        awaiting_user_input |-> FALSE]

\* the node, the merge of its update (every field it writes is
\* last-write-wins) and the edge process_user_input -> call_agent_model
process_user_input ==
    /\ node = "process_user_input"
    /\ IF UserInputRaises
       THEN /\ node' = "error"
            /\ UNCHANGED <<user_preferences, research_progress,
                           awaiting_user_input>>
       ELSE LET u == UserInputUpdate
            IN  /\ user_preferences' =
                      IF "user_preferences" \in DOMAIN u
                      THEN u.user_preferences ELSE user_preferences
                /\ research_progress' =
                      IF "research_progress" \in DOMAIN u
                      THEN u.research_progress ELSE research_progress
                /\ awaiting_user_input' = u.awaiting_user_input
                /\ node' = "call_agent_model"
    /\ UNCHANGED <<website_url, messages, marketing_plan, loop_step,
                   plan_revision_count, last_question_context, tools,
                   response, verdict, max_loops, info, http, scrape_result>>

----------------------------------------------------------------------------
(* The graph *)

InitialProgress ==
    [k \in {"website_analyzed", "competitors_analyzed", "channels_researched",
            "budget_confirmed", "timeline_confirmed"} |-> FALSE]

Init ==
    /\ node = "call_agent_model"
    /\ website_url \in Urls
    /\ messages = << >>
    /\ marketing_plan \in {None, Some(P2)}
    /\ loop_step = 0
    /\ awaiting_user_input = FALSE
    /\ plan_revision_count = 0
    /\ user_preferences = EmptyDict
    /\ last_question_context = None
    /\ research_progress = InitialProgress
    /\ tools = {}
    /\ response = << >>
    /\ verdict = None
    /\ max_loops \in MaxLoopsChoices
    /\ info = None
    /\ http = None
    /\ scrape_result = None

Next ==
    \/ call_agent_model
    \/ reflect
    \/ ToolNode
    \/ Resume

Spec == Init /\ [][Next]_vars

----------------------------------------------------------------------------
(* call_agent_model on a given response: the raw response of the model is an
   input held in the variable response, and the node is applied to it once *)

InitAgent ==
    /\ node = "call_agent_model"
    /\ website_url \in Urls
    /\ messages = << >>
    /\ marketing_plan \in {None, Some(P2)}
    /\ loop_step = 0
    /\ awaiting_user_input = FALSE
    /\ plan_revision_count = 0
    /\ user_preferences = EmptyDict
    /\ last_question_context = None
    /\ research_progress = InitialProgress
    /\ tools = {}
    /\ response \in RawResponses(Len(messages) + 1, Room(messages))
    /\ verdict = None
    /\ max_loops \in MaxLoopsChoices
    /\ info = None
    /\ http = None
    /\ scrape_result = None

call_agent_model_on_response ==
    /\ node = "call_agent_model"
    /\ loop_step = 0
    /\ AgentStep(response)
    /\ UNCHANGED response

NextAgent == call_agent_model_on_response

SpecAgent == InitAgent /\ [][NextAgent]_vars

----------------------------------------------------------------------------
(* route_after_agent on a given state: the history call_agent_model left
   behind and the flag are inputs, and the edge is evaluated on them once *)

\* what the edge may find last in the history
RouterLastMessages ==
    {AIMessage(r) : r \in RawResponses(2, MaxCalls)}
    \cup {HumanMessage(r) : r \in Replies}
    \cup {ToolMessage(<<1, 1>>, << >>, "Search", "success")}

\* an earlier decision with some memory-tool calls, which count towards
\* loop-breaking
RouterEarlierMessages ==
    {AIMessage([i \in 1..k |->
                   [name |-> "ManageMemory", args |-> EmptyDict,
                    id |-> <<1, i>>]]) : k \in 0..MaxCalls}

InitRouter ==
    /\ node = "route_after_agent"
    /\ website_url \in Urls
    /\ messages \in
          {<<m>> : m \in RouterLastMessages}
          \cup {<<e, m>> : e \in RouterEarlierMessages,
                           m \in RouterLastMessages}
    /\ marketing_plan = None
    /\ loop_step = 1
    /\ awaiting_user_input \in BOOLEAN
    /\ plan_revision_count = 0
    /\ user_preferences = EmptyDict
    /\ last_question_context = None
    /\ research_progress = InitialProgress
    /\ tools = {}
    /\ response = << >>
    /\ verdict = None
    /\ max_loops \in MaxLoopsChoices
    /\ info = None
    /\ http = None
    /\ scrape_result = None

route_after_agent_on_state ==
    /\ node = "route_after_agent"
    /\ node' = route_after_agent(messages, awaiting_user_input)
    /\ UNCHANGED <<website_url, messages, marketing_plan, loop_step,
                   awaiting_user_input, plan_revision_count,
                   user_preferences, last_question_context,
                   research_progress, tools, response, verdict, max_loops,
                   info, http, scrape_result>>

NextRouter == route_after_agent_on_state

SpecRouter == InitRouter /\ [][NextRouter]_vars

----------------------------------------------------------------------------

(* route_after_checker on a given state: the state reflect left behind is an
   input, and the edge is evaluated on it once *)

\* what the edge may find last in the history
CheckerLastMessages ==
    {ToolMessage(<<1, 1>>, << >>, "MarketingPlan", st) :
        st \in {"success", "error"}}
    \cup {AIMessage(<<[name |-> "MarketingPlan", args |-> P1,
                       id |-> <<1, 1>>]>>),
          HumanMessage(<<"5", "k">>)}

InitChecker ==
    /\ node = "route_after_checker"
    /\ website_url \in Urls
    /\ messages \in {<<m>> : m \in CheckerLastMessages}
    /\ marketing_plan \in {None, Some(EmptyDict), Some(P1)}
    /\ loop_step \in 0..MaxStep
    /\ awaiting_user_input = FALSE
    /\ plan_revision_count = 0
    /\ user_preferences = EmptyDict
    /\ last_question_context = None
    /\ research_progress = InitialProgress
    /\ tools = {}
    /\ response = << >>
    /\ verdict = None
    /\ max_loops \in MaxLoopsChoices
    /\ info = None
    /\ http = None
    /\ scrape_result = None

route_after_checker_on_state ==
    /\ node = "route_after_checker"
    /\ node' = route_after_checker(messages, marketing_plan, loop_step)
    /\ UNCHANGED <<website_url, messages, marketing_plan, loop_step,
                   awaiting_user_input, plan_revision_count,
                   user_preferences, last_question_context,
                   research_progress, tools, response, verdict, max_loops,
                   info, http, scrape_result>>

NextChecker == route_after_checker_on_state

SpecChecker == InitChecker /\ [][NextChecker]_vars

----------------------------------------------------------------------------

(* process_user_input on a given state: the state a resumed run would hand to
   the node is an input, and the node is applied to it once *)

Keywords ==
    {Str_budget, Str_timeline, Str_launch, Str_channel, Str_platform,
     Str_goal, Str_objective, Str_industry, Str_business}

\* questions with no keyword, one keyword, or two keywords in either order
Questions ==
    {<< >>, Q_Budget, Q_Colors}
    \cup Keywords
    \cup {a \o <<" ">> \o b : a \in Keywords, b \in Keywords}

Contexts == {<< >>, Ctx_Brand}

\* arguments of the AskUserInput call: question is required by the schema,
\* context is optional, and the model may leave out either
UserInputAskArgs ==
    {[k \in {"question"} |-> q] : q \in Questions}
    \cup {[k \in {"question", "context"} |->
              IF k = "question" THEN qc[1] ELSE qc[2]] :
          qc \in Questions \X Contexts}
    \cup {EmptyDict, [k \in {"context"} |-> Ctx_Brand]}

SearchCall == [name |-> "Search", args |-> EmptyDict, id |-> <<1, 1>>]

\* the message before the last one
SecondLastMessages ==
    {AIMessage(<<[name |-> "AskUserInput", args |-> a, id |-> <<1, 1>>]>>) :
        a \in UserInputAskArgs}
    \cup {AIMessage(<<SearchCall,
                      [name |-> "AskUserInput",
                       args |-> [k \in {"question"} |-> Str_goal],
                       id |-> <<1, 2>>]>>),
          AIMessage(<<SearchCall>>),
          AIMessage(<< >>),
          HumanMessage(Str_Nudge)}

\* the last message: the user's reply, or something that is not one
UserInputLastMessages ==
    {HumanMessage(r) : r \in Replies}
    \cup {ToolMessage(<<1, 1>>, << >>, "Search", "success")}

PreferencesBefore ==
    {EmptyDict,
     [k \in {Str_budget, Str_user_input} |-> <<"1", "k">>]}

ProgressBefore ==
    {InitialProgress,
     [k \in DOMAIN InitialProgress |-> k = "competitors_analyzed"]}

InitUserInput ==
    /\ node = "process_user_input"
    /\ website_url \in Urls
    /\ messages \in
          {<<m>> : m \in UserInputLastMessages}
          \cup {<<sl, m>> : sl \in SecondLastMessages,
                            m \in UserInputLastMessages}
    /\ marketing_plan = None
    /\ loop_step = 1
    /\ awaiting_user_input \in BOOLEAN
    /\ plan_revision_count = 0
    /\ user_preferences \in PreferencesBefore
    /\ last_question_context = None
    /\ research_progress \in ProgressBefore
    /\ tools = {}
    /\ response = << >>
    /\ verdict = None
    /\ max_loops \in MaxLoopsChoices
    /\ info = None
    /\ http = None
    /\ scrape_result = None

NextUserInput == process_user_input

SpecUserInput == InitUserInput /\ [][NextUserInput]_vars

----------------------------------------------------------------------------

(* scrape_website on a given URL: what the fetch of the URL yields is an
   input, and the tool is applied once *)

ScrapeUrls == {<<"u">>, <<"v">>}
HttpStatuses == {200, 404, 500}
HttpBodies ==
    {<< >>, <<"s", "h", "o", "p">>,
     <<"N", "o", "t", " ", "F", "o", "u", "n", "d">>}

\* outcomes of session.get(url)
HttpOutcomes ==
    {[url |-> u, kind |-> "error", status |-> 0, body |-> << >>] :
        u \in ScrapeUrls}
    \cup {[url |-> u, kind |-> "response", status |-> st, body |-> b] :
            u \in ScrapeUrls, st \in HttpStatuses, b \in HttpBodies}

InitScrape ==
    /\ node = "scrape_website"
    /\ website_url \in Urls
    /\ messages = << >>
    /\ marketing_plan \in {None, Some(P1), Some(P2)}
    /\ loop_step = 1
    /\ awaiting_user_input = FALSE
    /\ plan_revision_count = 0
    /\ user_preferences = EmptyDict
    /\ last_question_context = None
    /\ research_progress = InitialProgress
    /\ tools = {}
    /\ response = << >>
    /\ verdict = None
    /\ max_loops \in MaxLoopsChoices
    /\ info = None
    /\ http \in {Some(o) : o \in HttpOutcomes}
    /\ scrape_result = None

NextScrape == scrape_website

SpecScrape == InitScrape /\ [][NextScrape]_vars

----------------------------------------------------------------------------

(* Vocabulary of the properties *)

IsDecision(m) == m.type = "ai"
CallNames(m) == {m.tool_calls[i].name : i \in DOMAIN m.tool_calls}

\* position of the most recent model decision, 0 if there is none yet
LastDecisionAt(msgs) ==
    IF \E i \in DOMAIN msgs : IsDecision(msgs[i])
    THEN CHOOSE i \in DOMAIN msgs :
            IsDecision(msgs[i]) /\ \A j \in DOMAIN msgs :
                                      IsDecision(msgs[j]) => j <= i
    ELSE 0

LastMessage == messages[Len(messages)]

\* the most recent decision is exactly one call of the given tool
DecisionIsSingle(nm) ==
    /\ LastDecisionAt(messages) # 0
    /\ Len(messages[LastDecisionAt(messages)].tool_calls) = 1
    /\ messages[LastDecisionAt(messages)].tool_calls[1].name = nm

SubmittedCall == messages[LastDecisionAt(messages)].tool_calls[1]

\* memory-tool calls carried by the last five messages, counted as a set
TrailingMemoryCalls(msgs) ==
    Cardinality({p \in (DOMAIN msgs) \X (1..MaxSize) :
                    /\ p[1] > Len(msgs) - 5
                    /\ p[2] \in DOMAIN msgs[p[1]].tool_calls
                    /\ msgs[p[1]].tool_calls[p[2]].name
                           \in {"ManageMemory", "SearchMemory"}})

\* t occurs in s as a contiguous run
Contains(s, t) ==
    \E i \in 1..(Len(s) - Len(t) + 1) : SubSeq(s, i, i + Len(t) - 1) = t

RECURSIVE JoinedLines(_)
\* the items with a newline between neighbours, built from the right
JoinedLines(items) ==
    IF Len(items) = 0 THEN << >>
    ELSE LET front == SubSeq(items, 1, Len(items) - 1)
         IN  JoinedLines(front)
               \o (IF Len(front) = 0 THEN << >> ELSE <<"\n">>)
               \o items[Len(items)]

\* route_after_agent never selects process_user_input: the flag is true only
\* for a decision kept as a single AskUserInput call, which is an AI message
ProcessUserInputNeverScheduled == node # "process_user_input"
NoContractViolation == node # "error"

----------------------------------------------------------------------------
(* C1 *)

\* C1: every run ends in plan acceptance, loop-budget exhaustion or a pause.
\* Stated on finite prefixes: once loop_step has reached max_loops the run
\* is over, so the agent is never scheduled for a further decision with an
\* exhausted budget.
C1_RunEndsWhenBudgetExhausted ==
    node = "call_agent_model" => loop_step < max_loops

\* C2: after k agent decisions the stored loop_step is k.
C2_LoopStepCountsDecisions == loop_step = NumDecisions(messages)

\* C3: after k reflect steps the stored plan_revision_count is k.
C3_RevisionCountCountsReflects ==
    plan_revision_count =
        Cardinality({i \in DOMAIN messages :
                        messages[i].type = "tool"
                        /\ messages[i].name = "MarketingPlan"})

\* C4: every decision with tool calls has a matching tool-result message for
\* each of its calls before the next decision is produced.
C4_ToolCallsAnsweredBeforeNextDecision ==
    \A i \in DOMAIN messages : \A j \in DOMAIN messages :
        (i < j /\ IsDecision(messages[i]) /\ IsDecision(messages[j])) =>
            \A c \in DOMAIN messages[i].tool_calls :
                \E k \in (i + 1)..(j - 1) :
                    /\ messages[k].type = "tool"
                    /\ messages[k].tool_call_id = messages[i].tool_calls[c].id

\* C5: a reply given to a pending AskUserInput question is processed by
\* process_user_input, which records it in user_preferences or
\* research_progress.  Stated on finite prefixes: when the resumed run has
\* ended without a further question pending, the reply it was resumed with
\* has been recorded.
C5_ReplyIsProcessed ==
    (/\ node = "__end__"
     /\ ~Paused
     /\ \E i \in DOMAIN messages :
           /\ IsDecision(messages[i])
           /\ "AskUserInput" \in CallNames(messages[i])
           /\ i + 1 \in DOMAIN messages
           /\ messages[i + 1].type = "human")
    => (user_preferences # EmptyDict \/ research_progress # InitialProgress)

----------------------------------------------------------------------------
(* C6 *)

LatestDecisionIsMemoryCall(msgs) ==
    /\ Len(msgs) > 0
    /\ IsDecision(msgs[Len(msgs)])
    /\ Len(msgs[Len(msgs)].tool_calls) > 0
    /\ msgs[Len(msgs)].tool_calls[1].name \in {"ManageMemory", "SearchMemory"}

----------------------------------------------------------------------------
(* C7 *)

HasCall(calls, nm) == \E i \in DOMAIN calls : calls[i].name = nm
FirstIndexOf(calls, S) ==
    CHOOSE i \in DOMAIN calls :
        calls[i].name \in S /\ \A j \in 1..(i - 1) : calls[j].name \notin S

StoredDecision == messages[LastDecisionAt(messages)].tool_calls

AtMostOneSubmissionOrQuestion ==
    Cardinality({i \in DOMAIN StoredDecision :
        StoredDecision[i].name \in {"MarketingPlan", "AskUserInput"}}) <= 1

\* C7 as stated: a MarketingPlan call anywhere in the response is the one
\* kept and supplies the candidate plan; an AskUserInput call is kept only
\* when the response has no MarketingPlan call; the stored decision carries
\* at most one MarketingPlan or AskUserInput call.
C7_PlanCallAlwaysWins ==
    (loop_step > 0) =>
        /\ HasCall(response, "MarketingPlan") =>
              /\ StoredDecision =
                    <<response[FirstIndexOf(response, {"MarketingPlan"})]>>
              /\ marketing_plan =
                    Some(response[FirstIndexOf(response,
                                               {"MarketingPlan"})].args)
        /\ (HasCall(response, "AskUserInput")
              /\ ~HasCall(response, "MarketingPlan")) =>
              StoredDecision =
                  <<response[FirstIndexOf(response, {"AskUserInput"})]>>
        /\ AtMostOneSubmissionOrQuestion

\* C7 amended: the call kept is the first call of the response, in response
\* order, that is a MarketingPlan or an AskUserInput call.  If it is a
\* MarketingPlan call its arguments are the candidate plan; if it is an
\* AskUserInput call the candidate plan is absent, also when a MarketingPlan
\* call follows it.  A response with neither is stored as it is, with no
\* candidate plan.  The stored decision carries at most one MarketingPlan or
\* AskUserInput call.
C7_FirstSubmissionOrQuestionWins ==
    (loop_step > 0) =>
        /\ (HasCall(response, "MarketingPlan")
              \/ HasCall(response, "AskUserInput")) =>
              LET first == response[FirstIndexOf(response,
                               {"MarketingPlan", "AskUserInput"})]
              IN  /\ StoredDecision = <<first>>
                  /\ first.name = "MarketingPlan" =>
                        marketing_plan = Some(first.args)
                  /\ first.name = "AskUserInput" => marketing_plan = None
        /\ (~HasCall(response, "MarketingPlan")
              /\ ~HasCall(response, "AskUserInput")) =>
              /\ StoredDecision = response
              /\ marketing_plan = None
        /\ AtMostOneSubmissionOrQuestion

\* the response asked first and submitted second; the question was kept
C7_Witness ==
    /\ loop_step > 0
    /\ Len(response) = 2
    /\ response[1].name = "AskUserInput"
    /\ response[2].name = "MarketingPlan"
    /\ StoredDecision = <<response[1]>>
    /\ marketing_plan = None

----------------------------------------------------------------------------
(* C8, C9 *)

\* the MarketingPlan call of the decision reflect is looking at
PlanCallOf(m) ==
    m.tool_calls[CHOOSE i \in DOMAIN m.tool_calls :
                    m.tool_calls[i].name = "MarketingPlan"]

ReflectStepWith(sat) ==
    /\ node = "reflect"
    /\ ~IsNone(verdict')
    /\ Get(verdict').is_satisfactory = sat
    /\ IsDecision(LastMessage)
    /\ "MarketingPlan" \in CallNames(LastMessage)

AppendsExactly(m) == messages' = messages \o <<m>>

\* C8: reflect on a decision with a MarketingPlan call of identifier I, a
\* candidate plan P present in state and a verdict is_satisfactory = true
\* leaves marketing_plan = P and appends exactly one tool-result message:
\* status success, tool_call_id I, content the reasoning items joined by
\* newlines.
C8_AcceptCommitsPlan ==
    [][(ReflectStepWith(TRUE) /\ Truthy(marketing_plan)) =>
          /\ marketing_plan' = marketing_plan
          /\ AppendsExactly(
                [type |-> "tool", tool_calls |-> << >>,
                 content |-> JoinedLines(Get(verdict').reason),
                 tool_call_id |-> PlanCallOf(LastMessage).id,
                 name |-> "MarketingPlan", status |-> "success"])]_vars

\* an accepted plan: the verdict was true and the success result is stored
C8_Witness ==
    /\ ~IsNone(verdict)
    /\ Get(verdict).is_satisfactory
    /\ Len(Get(verdict).reason) > 1
    /\ LastMessage.type = "tool"
    /\ LastMessage.status = "success"
    /\ Truthy(marketing_plan)

\* C9: reflect with a verdict is_satisfactory = false and improvement text T
\* leaves the stored plan as it was before the step and appends exactly one
\* tool-result message: status error, the MarketingPlan call's identifier,
\* content containing T.
C9_RejectKeepsPlan ==
    [][(ReflectStepWith(FALSE)
          /\ ~IsNone(Get(verdict').improvement_instructions)) =>
          /\ marketing_plan' = marketing_plan
          /\ Len(messages') = Len(messages) + 1
          /\ SubSeq(messages', 1, Len(messages)) = messages
          /\ messages'[Len(messages')].type = "tool"
          /\ messages'[Len(messages')].status = "error"
          /\ messages'[Len(messages')].tool_call_id
                 = PlanCallOf(LastMessage).id
          /\ Contains(messages'[Len(messages')].content,
                      Get(Get(verdict').improvement_instructions))]_vars

\* a rejected plan: verdict false with improvement text, error result stored,
\* the candidate still in state
C9_Witness ==
    /\ ~IsNone(verdict)
    /\ ~Get(verdict).is_satisfactory
    /\ ~IsNone(Get(verdict).improvement_instructions)
    /\ LastMessage.type = "tool"
    /\ LastMessage.status = "error"
    /\ Truthy(marketing_plan)

----------------------------------------------------------------------------
(* C10 *)

PlanIsLatestSubmission ==
    /\ DecisionIsSingle("MarketingPlan")
    /\ marketing_plan = Some(SubmittedCall.args)

\* C10 as stated, for the states after the first agent decision: a plan
\* (with content) is in state only if the latest decision submitted it and
\* the checker has either not evaluated it yet or accepted it.
C10_NoRejectedPlanInState ==
    (loop_step > 0 /\ Truthy(marketing_plan)) =>
        /\ PlanIsLatestSubmission
        /\ \/ Len(messages) = LastDecisionAt(messages)
           \/ /\ LastMessage.type = "tool"
              /\ LastMessage.tool_call_id = SubmittedCall.id
              /\ LastMessage.status = "success"

\* C10 amended: after the first agent decision, a plan is in state only if
\* the latest decision submitted it, and it stays there once reflect has
\* finished whatever the verdict: a rejected plan is still in state after
\* reflect, also when the run ends by loop-budget exhaustion, until the next
\* call_agent_model step replaces it.
C10_PlanIsLatestSubmission ==
    (loop_step > 0) =>
        /\ ~IsNone(marketing_plan) => PlanIsLatestSubmission
        /\ (LastMessage.type = "tool" /\ LastMessage.name = "MarketingPlan")
              => PlanIsLatestSubmission

\* the run ended on an exhausted budget with the rejected plan in state
C10_Witness ==
    /\ node = "__end__"
    /\ loop_step >= max_loops
    /\ LastMessage.type = "tool"
    /\ LastMessage.status = "error"
    /\ Truthy(marketing_plan)
    /\ PlanIsLatestSubmission

----------------------------------------------------------------------------
(* C11 *)

\* the messages stored after the most recent decision
AfterLastDecision ==
    SubSeq(messages, LastDecisionAt(messages) + 1, Len(messages))

\* C11: awaiting_user_input is true only if the most recent model decision
\* is a single AskUserInput call whose reply has not been processed: nothing
\* but the user's reply follows the question, and the reply is recorded in
\* neither user_preferences nor research_progress.  The decision carries the
\* one pending question.
C11_AwaitingOnlyForPendingQuestion ==
    awaiting_user_input =>
        /\ DecisionIsSingle("AskUserInput")
        /\ Len(AfterLastDecision) <= 1
        /\ \A i \in DOMAIN AfterLastDecision :
              AfterLastDecision[i].type = "human"
        /\ user_preferences = EmptyDict
        /\ research_progress = InitialProgress
        /\ Cardinality({i \in DOMAIN messages :
                           /\ IsDecision(messages[i])
                           /\ "AskUserInput" \in CallNames(messages[i])
                           /\ \A j \in DOMAIN messages :
                                 j > i => messages[j].type # "human"}) <= 1

\* the flag is up while the caller has already supplied the reply
C11_Witness ==
    /\ awaiting_user_input
    /\ node = "call_agent_model"
    /\ LastMessage.type = "human"
    /\ DecisionIsSingle("AskUserInput")

----------------------------------------------------------------------------
(* C12 *)

\* C12: once route_after_checker has run on a state with
\* loop_step >= max_loops the run is over, whatever marketing_plan holds
\* (absent, empty, a plan) and whatever the last message is (a success or an
\* error tool-result).
C12_BudgetExhaustedEndsRun ==
    (node # "route_after_checker" /\ loop_step >= max_loops) =>
        node = "__end__"

\* the edge ended the run on an exhausted budget although no plan is in
\* state and the last tool-result is an error
C12_Witness ==
    /\ node = "__end__"
    /\ loop_step >= max_loops
    /\ IsNone(marketing_plan)
    /\ LastMessage.type = "tool"
    /\ LastMessage.status = "error"

----------------------------------------------------------------------------
(* C13 *)

BudgetExhaustedAfterReflect ==
    /\ loop_step >= max_loops
    /\ LastMessage.type = "tool"
    /\ LastMessage.name = "MarketingPlan"

PlanAccepted ==
    /\ LastMessage.type = "tool"
    /\ LastMessage.name = "MarketingPlan"
    /\ LastMessage.status = "success"
    /\ ~IsNone(marketing_plan)

PausedForUser ==
    /\ IsDecision(LastMessage)
    /\ Len(LastMessage.tool_calls) = 1
    /\ LastMessage.tool_calls[1].name = "AskUserInput"
    /\ awaiting_user_input

\* C13: whenever a run has reached its end, loop_step has reached max_loops
\* after a reflect step, or the last message is a success-status
\* MarketingPlan tool-result with a plan in state, or the last message is a
\* decision whose only tool call is AskUserInput and awaiting_user_input is
\* true.
C13_EndIsTerminalCondition ==
    node = "__end__" =>
        (Len(messages) > 0
         /\ (BudgetExhaustedAfterReflect \/ PlanAccepted \/ PausedForUser))

\* a run that ended by plan acceptance with budget to spare
C13_Witness ==
    /\ node = "__end__"
    /\ PlanAccepted
    /\ loop_step < max_loops
    /\ ~awaiting_user_input

----------------------------------------------------------------------------
(* C14, C15, C16 *)

\* capital and small form of each letter
CasePairs ==
    {<<"A", "a">>, <<"B", "b">>, <<"C", "c">>, <<"D", "d">>, <<"E", "e">>,
     <<"F", "f">>, <<"G", "g">>, <<"H", "h">>, <<"I", "i">>, <<"J", "j">>,
     <<"K", "k">>, <<"L", "l">>, <<"M", "m">>, <<"N", "n">>, <<"O", "o">>,
     <<"P", "p">>, <<"Q", "q">>, <<"R", "r">>, <<"S", "s">>, <<"T", "t">>,
     <<"U", "u">>, <<"V", "v">>, <<"W", "w">>, <<"X", "x">>, <<"Y", "y">>,
     <<"Z", "z">>}

SameIgnoringCase(c, d) ==
    c = d \/ <<c, d>> \in CasePairs \/ <<d, c>> \in CasePairs

\* t occurs in s as a contiguous run, capitals and small letters alike
ContainsIgnoringCase(s, t) ==
    \E i \in 1..(Len(s) - Len(t) + 1) :
        \A j \in 1..Len(t) : SameIgnoringCase(s[i + j - 1], t[j])

SmallLetter(c) ==
    IF \E p \in CasePairs : p[1] = c
    THEN (CHOOSE p \in CasePairs : p[1] = c)[2]
    ELSE c

\* d with the entry k: v added or replaced, everything else as in d
WithEntry(d, k, v) ==
    [x \in (DOMAIN d) \cup {k} |-> IF x = k THEN v ELSE d[x]]

SecondLastMessage == messages[Len(messages) - 1]

\* process_user_input is about to run on a pending question and its reply
ProcessesReply ==
    /\ node = "process_user_input"
    /\ awaiting_user_input
    /\ Len(messages) >= 2
    /\ IsDecision(SecondLastMessage)
    /\ "AskUserInput" \in CallNames(SecondLastMessage)
    /\ LastMessage.type = "human"

\* the pending question's call, its question and its context
AskedCall ==
    SecondLastMessage.tool_calls[
        CHOOSE i \in DOMAIN SecondLastMessage.tool_calls :
            /\ SecondLastMessage.tool_calls[i].name = "AskUserInput"
            /\ \A j \in 1..(i - 1) :
                  SecondLastMessage.tool_calls[j].name # "AskUserInput"]
AskedQuestion ==
    IF "question" \in DOMAIN AskedCall.args
    THEN AskedCall.args["question"] ELSE << >>
AskedContext ==
    IF "context" \in DOMAIN AskedCall.args
    THEN AskedCall.args["context"] ELSE << >>

Reply == LastMessage.content

\* the history is a question and the user's reply to it
RepliedToQuestion ==
    /\ Len(messages) = 2
    /\ IsDecision(SecondLastMessage)
    /\ "AskUserInput" \in CallNames(SecondLastMessage)
    /\ LastMessage.type = "human"

\* C14: process_user_input, given awaiting_user_input = true, a
\* second-to-last message carrying an AskUserInput call whose question
\* contains "budget" in any capitalisation, and a last human message with
\* content R, sets user_preferences["budget"] = R,
\* research_progress["budget_confirmed"] = true and
\* awaiting_user_input = false, and keeps every other preference key and
\* milestone as it was.
C14_BudgetReplyRecorded ==
    [][(ProcessesReply
          /\ ContainsIgnoringCase(AskedQuestion,
                                  <<"b", "u", "d", "g", "e", "t">>)) =>
          /\ user_preferences' =
                WithEntry(user_preferences,
                          <<"b", "u", "d", "g", "e", "t">>, Reply)
          /\ research_progress' =
                WithEntry(research_progress, "budget_confirmed", TRUE)
          /\ awaiting_user_input' = FALSE]_vars

\* the reply to "Budget?" is recorded next to the preferences and the
\* milestone that were there before
C14_Witness ==
    /\ node = "call_agent_model"
    /\ RepliedToQuestion
    /\ AskedQuestion = <<"B", "u", "d", "g", "e", "t", "?">>
    /\ DOMAIN user_preferences =
          {<<"b", "u", "d", "g", "e", "t">>,
           <<"u", "s", "e", "r", "_", "i", "n", "p", "u", "t">>}
    /\ user_preferences[<<"b", "u", "d", "g", "e", "t">>] = <<"5", "k">>
    /\ user_preferences[<<"u", "s", "e", "r", "_", "i", "n", "p", "u", "t">>]
          = <<"1", "k">>
    /\ research_progress["budget_confirmed"]
    /\ research_progress["competitors_analyzed"]
    /\ ~research_progress["timeline_confirmed"]
    /\ ~awaiting_user_input

\* the keyword groups in their priority order
GroupKeywords ==
    << {<<"b", "u", "d", "g", "e", "t">>},
       {<<"t", "i", "m", "e", "l", "i", "n", "e">>,
        <<"l", "a", "u", "n", "c", "h">>},
       {<<"c", "h", "a", "n", "n", "e", "l">>,
        <<"p", "l", "a", "t", "f", "o", "r", "m">>},
       {<<"g", "o", "a", "l">>,
        <<"o", "b", "j", "e", "c", "t", "i", "v", "e">>},
       {<<"i", "n", "d", "u", "s", "t", "r", "y">>,
        <<"b", "u", "s", "i", "n", "e", "s", "s">>} >>

MatchedGroups(q) ==
    {g \in DOMAIN GroupKeywords :
        \E k \in GroupKeywords[g] : ContainsIgnoringCase(q, k)}

EarliestGroup(q) ==
    CHOOSE g \in MatchedGroups(q) : \A h \in MatchedGroups(q) : g <= h

\* what the branch of group g, and only it, does with the reply
BranchEffect(g) ==
    CASE g = 1 ->
           /\ user_preferences' =
                 WithEntry(user_preferences,
                           <<"b", "u", "d", "g", "e", "t">>, Reply)
           /\ research_progress' =
                 WithEntry(research_progress, "budget_confirmed", TRUE)
      [] g = 2 ->
           /\ user_preferences' =
                 WithEntry(user_preferences,
                           <<"t", "i", "m", "e", "l", "i", "n", "e">>, Reply)
           /\ research_progress' =
                 WithEntry(research_progress, "timeline_confirmed", TRUE)
      [] g = 3 ->
           /\ user_preferences' =
                 WithEntry(user_preferences,
                           <<"p", "r", "e", "f", "e", "r", "r", "e", "d", "_",
                             "c", "h", "a", "n", "n", "e", "l", "s">>, Reply)
           /\ research_progress' = research_progress
      [] g = 4 ->
           /\ user_preferences' =
                 WithEntry(user_preferences,
                           <<"m", "a", "r", "k", "e", "t", "i", "n", "g", "_",
                             "g", "o", "a", "l", "s">>, Reply)
           /\ research_progress' = research_progress
      [] g = 5 ->
           /\ user_preferences' = user_preferences
           /\ research_progress' =
                 WithEntry(research_progress, "website_analyzed", TRUE)

\* C15: for every question containing keywords of several groups, only the
\* branch of the earliest group in the order budget, timeline/launch,
\* channel/platform, goal/objective, industry/business takes effect.
C15_EarliestGroupWins ==
    [][(ProcessesReply /\ Cardinality(MatchedGroups(AskedQuestion)) >= 2) =>
          BranchEffect(EarliestGroup(AskedQuestion))]_vars

\* "launch budget": the timeline keyword comes first in the text, the budget
\* branch took effect and the timeline branch did not
C15_Witness ==
    /\ node = "call_agent_model"
    /\ RepliedToQuestion
    /\ AskedQuestion = <<"l", "a", "u", "n", "c", "h", " ",
                         "b", "u", "d", "g", "e", "t">>
    /\ DOMAIN user_preferences = {<<"b", "u", "d", "g", "e", "t">>}
    /\ user_preferences[<<"b", "u", "d", "g", "e", "t">>] = <<"5", "k">>
    /\ research_progress["budget_confirmed"]
    /\ ~research_progress["timeline_confirmed"]

\* the key derived from a context: small letters, spaces as underscores
KeyOfContext(c) ==
    IF Len(c) = 0 THEN <<"u", "s", "e", "r", "_", "i", "n", "p", "u", "t">>
    ELSE [i \in DOMAIN c |-> IF c[i] = " " THEN "_" ELSE SmallLetter(c[i])]

\* C16: for a pending question matching no recognized keyword, the reply is
\* stored under the key obtained from the question's context by lowercasing
\* it and replacing spaces with underscores, and under "user_input" when the
\* context is absent or empty; research_progress is not changed.
C16_FallbackKeyFromContext ==
    [][(ProcessesReply /\ MatchedGroups(AskedQuestion) = {}) =>
          /\ user_preferences' =
                WithEntry(user_preferences, KeyOfContext(AskedContext),
                          Reply)
          /\ research_progress' = research_progress]_vars

\* context "Brand colors" gave the key "brand_colors"
C16_Witness ==
    /\ node = "call_agent_model"
    /\ RepliedToQuestion
    /\ AskedContext = <<"B", "r", "a", "n", "d", " ",
                        "c", "o", "l", "o", "r", "s">>
    /\ DOMAIN user_preferences =
          {<<"b", "r", "a", "n", "d", "_", "c", "o", "l", "o", "r", "s">>}
    /\ user_preferences[<<"b", "r", "a", "n", "d", "_",
                          "c", "o", "l", "o", "r", "s">>] = <<"5", "k">>
    /\ research_progress = [k \in DOMAIN research_progress |-> FALSE]

----------------------------------------------------------------------------
(* C17 *)

\* C17: merging is append-only for messages and additive for counters.  No
\* step removes or reorders a stored message; an update that contributes
\* several messages leaves them in the stored sequence in the order in which
\* one-message updates would have appended them (the decision before the
\* corrective message, the tool-results in the order of their calls); and
\* the counter update of a step (the value the node read, plus one) is added
\* to the stored value and does not replace it.
C17_MergeAppendsAndSums ==
    [][/\ Len(messages') >= Len(messages)
       /\ SubSeq(messages', 1, Len(messages)) = messages
       /\ (node = "call_agent_model"
             /\ Len(messages') = Len(messages) + 2) =>
             /\ messages'[Len(messages) + 1].type = "ai"
             /\ messages'[Len(messages) + 2].type = "human"
       /\ (node = "tools") =>
             /\ Len(messages') =
                   Len(messages) + Len(LastMessage.tool_calls)
             /\ \A i \in DOMAIN LastMessage.tool_calls :
                   /\ messages'[Len(messages) + i].type = "tool"
                   /\ messages'[Len(messages) + i].tool_call_id =
                         LastMessage.tool_calls[i].id
       /\ loop_step' =
             IF node = "call_agent_model"
             THEN loop_step + (loop_step + 1) ELSE loop_step
       /\ plan_revision_count' =
             IF node = "reflect"
             THEN plan_revision_count + (plan_revision_count + 1)
             ELSE plan_revision_count]_vars

\* a two-message update (decision without tool call, corrective message)
\* followed by a submission and its evaluation: two loop_step updates and
\* one plan_revision_count update have been summed
C17_Witness ==
    /\ Len(messages) = 4
    /\ messages[1].type = "ai"
    /\ messages[2].type = "human"
    /\ messages[3].type = "ai"
    /\ messages[4].type = "tool"
    /\ loop_step = 3
    /\ plan_revision_count = 1

----------------------------------------------------------------------------
(* C18 *)

\* C18: scrape_website called on a URL whose HTTP response has a non-success
\* status ends in a tool-execution failure: it does not invoke the model and
\* does not return a summary built from the response body.
C18_NonSuccessStatusFails ==
    (/\ ~IsNone(scrape_result)
     /\ Get(http).kind = "response"
     /\ Get(http).status \notin 200..299) =>
        /\ Get(scrape_result).kind = "raised"
        /\ Get(scrape_result).prompts = << >>

----------------------------------------------------------------------------
(* C19 *)

\* C19: when a run terminates by plan acceptance, the field info of the run's
\* output payload holds the accepted marketing plan.
C19_OutputHoldsAcceptedPlan ==
    (node = "__end__" /\ Len(messages) > 0 /\ PlanAccepted) =>
        info = marketing_plan

----------------------------------------------------------------------------
(* C20 *)

\* this call_agent_model step stores a decision that carries no tool call
StoresDecisionWithoutCall ==
    /\ node = "call_agent_model"
    /\ Len(messages') > Len(messages)
    /\ messages'[Len(messages) + 1].type = "ai"
    /\ Len(messages'[Len(messages) + 1].tool_calls) = 0

\* C20 as stated: when the model's response carries no tool call, the next
\* node executed is tools.
C20_NoToolCallGoesToTools ==
    [][StoresDecisionWithoutCall => node' = "tools"]_vars

\* C20 amended: when the model's response carries no tool call, the decision
\* and, directly behind it, the corrective message are appended, and the next
\* node executed is call_agent_model itself; tools is not executed in
\* between.
C20_NoToolCallGoesBackToAgent ==
    [][StoresDecisionWithoutCall =>
          /\ Len(messages') = Len(messages) + 2
          /\ messages'[Len(messages')].type = "human"
          /\ messages'[Len(messages')].content =
                <<"P", "l", "e", "a", "s", "e">>
          /\ ~awaiting_user_input'
          /\ node' = "call_agent_model"]_vars

\* the agent is about to run again with the corrective message last
C20_Witness ==
    /\ node = "call_agent_model"
    /\ Len(messages) >= 2
    /\ IsDecision(messages[Len(messages) - 1])
    /\ Len(messages[Len(messages) - 1].tool_calls) = 0
    /\ LastMessage.type = "human"
    /\ LastMessage.content = <<"P", "l", "e", "a", "s", "e">>

----------------------------------------------------------------------------
(* C21 *)

\* loop-breaking applies: three or more memory-tool calls in the last five
\* messages and the first tool of the latest decision is a memory tool
LoopBreakingApplies ==
    /\ TrailingMemoryCalls(messages) >= 3
    /\ LatestDecisionIsMemoryCall(messages)

\* C21: route_after_agent, when the last message is a model decision with
\* tool calls and loop-breaking does not apply, routes by the first tool
\* call's name: MarketingPlan to reflect, AskUserInput to the end of the run,
\* every other name to tools; when the last message is not a model decision
\* it routes to process_user_input if awaiting_user_input is true and to
\* call_agent_model otherwise.
C21_RoutesByFirstToolCall ==
    (node # "route_after_agent") =>
        /\ (IsDecision(LastMessage) /\ Len(LastMessage.tool_calls) > 0
              /\ ~LoopBreakingApplies) =>
              node = (CASE LastMessage.tool_calls[1].name = "MarketingPlan"
                             -> "reflect"
                        [] LastMessage.tool_calls[1].name = "AskUserInput"
                             -> "__end__"
                        [] OTHER -> "tools")
        /\ ~IsDecision(LastMessage) =>
              node = (IF awaiting_user_input THEN "process_user_input"
                      ELSE "call_agent_model")

\* the user's reply is last, the flag is up, and the edge chose
\* process_user_input
C21_Witness ==
    /\ node = "process_user_input"
    /\ awaiting_user_input
    /\ LastMessage.type = "human"

----------------------------------------------------------------------------
(* C22 *)

\* no plan in state: the field is unset or holds an empty submission
PlanAbsent == IsNone(marketing_plan) \/ Get(marketing_plan) = EmptyDict

\* C22: route_after_checker, when loop_step < max_loops, returns
\* call_agent_model if marketing_plan is absent; otherwise it returns
\* call_agent_model if the last message is an error-status tool-result, ends
\* the run if the last message is a success-status tool-result, and fails
\* with a fatal contract violation if the last message is not a tool-result.
C22_BelowBudgetRouting ==
    (node # "route_after_checker" /\ loop_step < max_loops) =>
        /\ PlanAbsent => node = "call_agent_model"
        /\ (LastMessage.type = "tool" /\ LastMessage.status = "error") =>
              node = "call_agent_model"
        /\ (~PlanAbsent /\ LastMessage.type = "tool"
              /\ LastMessage.status = "success") => node = "__end__"
        /\ (~PlanAbsent /\ LastMessage.type # "tool") => node = "error"

\* below the budget the edge found a plan in state behind a message that is
\* not a tool-result, and failed
C22_Witness ==
    /\ node = "error"
    /\ loop_step < max_loops
    /\ marketing_plan = Some(P1)
    /\ LastMessage.type = "human"

----------------------------------------------------------------------------
(* C23 *)

\* C23: reflect executes only as the immediate successor of a
\* call_agent_model step whose stored decision is a single MarketingPlan
\* call, and at that point marketing_plan equals that call's arguments.
C23_ReflectOnlyAfterSubmission ==
    [][(node' = "reflect") =>
          /\ node = "call_agent_model"
          /\ Len(messages') = Len(messages) + 1
          /\ IsDecision(messages'[Len(messages')])
          /\ Len(messages'[Len(messages')].tool_calls) = 1
          /\ messages'[Len(messages')].tool_calls[1].name = "MarketingPlan"
          /\ marketing_plan' =
                Some(messages'[Len(messages')].tool_calls[1].args)]_vars

\* reflect is about to run on a second submission, the first one having been
\* turned down
C23_Witness ==
    /\ node = "reflect"
    /\ PlanIsLatestSubmission
    /\ \E i \in DOMAIN messages :
          /\ messages[i].type = "tool"
          /\ messages[i].name = "MarketingPlan"
          /\ messages[i].status = "error"

----------------------------------------------------------------------------
(* C24 *)

\* the three cases in which process_user_input has nothing to record
NothingToRecord ==
    \/ ~awaiting_user_input
    \/ Len(messages) < 2
    \/ Len(messages[Len(messages) - 1].tool_calls) = 0
    \/ "AskUserInput" \notin CallNames(messages[Len(messages) - 1])

\* C24: process_user_input is a no-op apart from clearing the flag in three
\* cases: awaiting_user_input is false, there is no second-to-last message
\* or it carries no tool calls, or its tool calls include no AskUserInput
\* call.  In each case the update is exactly awaiting_user_input = false, it
\* raises no error, and user_preferences, research_progress, messages and
\* both counters are unchanged.
C24_NoOpClearsFlagOnly ==
    [][(node = "process_user_input" /\ NothingToRecord) =>
          /\ node' # "error"
          /\ awaiting_user_input' = FALSE
          /\ UNCHANGED <<user_preferences, research_progress, messages,
                         loop_step, plan_revision_count>>]_vars

----------------------------------------------------------------------------
(* C25 *)

\* process_user_input is about to run and finds the pending question
LocatesQuestion ==
    /\ node = "process_user_input"
    /\ awaiting_user_input
    /\ Len(messages) >= 2
    /\ IsDecision(SecondLastMessage)
    /\ "AskUserInput" \in CallNames(SecondLastMessage)

\* the branch taken for the pending question: 0 is the fallback
BranchOfQuestion ==
    IF MatchedGroups(AskedQuestion) = {} THEN 0
    ELSE EarliestGroup(AskedQuestion)

----------------------------------------------------------------------------
(* C26 *)

\* C26: no node of the graph (call_agent_model, reflect, process_user_input,
\* tools) writes website_url: its value at every state of a run equals the
\* value supplied in the run input.
C26_WebsiteUrlNeverWritten ==
    [][website_url' = website_url]_vars

\* the site is still the one of the run input after the tools node answered a
\* search and the checker turned a submission down
C26_Witness ==
    /\ website_url \in Urls
    /\ plan_revision_count > 0
    /\ \E i \in DOMAIN messages :
          messages[i].type = "tool" /\ messages[i].name = "Search"
    /\ \E i \in DOMAIN messages :
          /\ messages[i].type = "tool"
          /\ messages[i].name = "MarketingPlan"

----------------------------------------------------------------------------
(* C27 *)

\* C27: research_progress is monotone: every milestone starts false, and
\* once a milestone is true it stays true in every later state of the run;
\* no node ever sets a milestone back to false or removes a milestone key.
C27_ProgressIsMonotone ==
    [][/\ \A k \in DOMAIN InitialProgress : ~InitialProgress[k]
       /\ \A k \in DOMAIN research_progress :
             /\ k \in DOMAIN research_progress'
             /\ research_progress[k] => research_progress'[k]]_vars

\* a milestone reached earlier is still set after the node set another one
C27_Witness ==
    /\ node = "call_agent_model"
    /\ research_progress["competitors_analyzed"]
    /\ research_progress["budget_confirmed"]

----------------------------------------------------------------------------
(* C28 *)

\* C28: in every run that starts at call_agent_model and follows the graph's
\* edges, neither fatal contract check ever fires: reflect is never entered
\* with a last message that is not a model decision containing a
\* MarketingPlan call, and route_after_checker never finds a present plan
\* with a last message that is not a tool-result.
C28_NoContractCheckFires ==
    /\ node # "error"
    /\ (node = "reflect") =>
          /\ Len(messages) > 0
          /\ IsDecision(LastMessage)
          /\ "MarketingPlan" \in CallNames(LastMessage)

\* reflect ran on a submission and route_after_checker, below the budget,
\* found the plan in state behind the checker's tool-result
C28_Witness ==
    /\ node = "call_agent_model"
    /\ Len(messages) > 0
    /\ loop_step < max_loops
    /\ ~PlanAbsent
    /\ LastMessage.type = "tool"
    /\ LastMessage.name = "MarketingPlan"
    /\ ~IsNone(verdict)

----------------------------------------------------------------------------
(* C29 *)

\* a call_agent_model step that stores a decision which submits no plan
DecidesWithoutSubmission ==
    /\ node = "call_agent_model"
    /\ Len(messages') > Len(messages)
    /\ IsDecision(messages'[Len(messages) + 1])
    /\ "MarketingPlan" \notin CallNames(messages'[Len(messages) + 1])

\* C29: every call_agent_model execution whose decision is not a
\* MarketingPlan submission sets marketing_plan to absent, discarding
\* whatever plan was stored before the step (a rejected candidate, a plan
\* supplied in the run input, or a previously accepted plan when the graph is
\* invoked again).
C29_NonSubmissionClearsPlan ==
    [][DecidesWithoutSubmission => marketing_plan' = None]_vars

\* a candidate was turned down, the next decision submitted nothing, and no
\* plan is left in state
C29_Witness ==
    /\ marketing_plan = None
    /\ LastDecisionAt(messages) # 0
    /\ "MarketingPlan" \notin CallNames(messages[LastDecisionAt(messages)])
    /\ \E i \in 1..(LastDecisionAt(messages) - 1) :
          /\ messages[i].type = "tool"
          /\ messages[i].name = "MarketingPlan"
          /\ messages[i].status = "error"
          /\ \E j \in 1..(i - 1) :
                /\ IsDecision(messages[j])
                /\ "MarketingPlan" \in CallNames(messages[j])
                /\ PlanCallOf(messages[j]).args # EmptyDict

----------------------------------------------------------------------------
(* C30 *)

\* the checker has just judged a submission with empty arguments to be
\* satisfactory
EmptySubmissionJudgedSatisfactory ==
    /\ ~IsNone(verdict)
    /\ Get(verdict).is_satisfactory
    /\ Len(messages) >= 2
    /\ IsDecision(SecondLastMessage)
    /\ "MarketingPlan" \in CallNames(SecondLastMessage)
    /\ PlanCallOf(SecondLastMessage).args = EmptyDict

\* C30: a MarketingPlan submission with empty arguments is never accepted:
\* even when the checker's verdict is is_satisfactory = true, reflect emits
\* an error-status tool-result, and route_after_checker (below the loop
\* budget) returns to call_agent_model rather than ending the run.
C30_EmptySubmissionNeverAccepted ==
    EmptySubmissionJudgedSatisfactory =>
        /\ LastMessage.type = "tool"
        /\ LastMessage.tool_call_id = PlanCallOf(SecondLastMessage).id
        /\ LastMessage.status = "error"
        /\ (loop_step < max_loops) => node = "call_agent_model"

\* below the budget, an empty submission judged satisfactory was answered
\* with an error and the run went back to the agent
C30_Witness ==
    /\ EmptySubmissionJudgedSatisfactory
    /\ loop_step < max_loops
    /\ LastMessage.status = "error"
    /\ node = "call_agent_model"

====
